---- MODULE Spec2Model ----
(***************************************************************************)
(* Model of egg-herbie: the constant-folding analysis (src/src/math.rs)    *)
(* and the request/response session around it (src/src/main.rs).          *)
(*                                                                         *)
(* Exact values (num_rational::BigRational) are pairs <<numer, denom>> in  *)
(* lowest terms with denom > 0.  Option<Constant> is a record with a tag.  *)
(* Texts (patterns, expressions) are sequences of tokens.                 *)
(***************************************************************************)
EXTENDS Integers, Sequences, FiniteSets, TLC

VARIABLES
    rewrites,   \* State.rewrites: the installed rules               (main.rs:72)
    pc,         \* main's loop: "read" the next record or "handle" it (main.rs:153)
    read,       \* the item the deserializer gave last              (main.rs:153)
    response,   \* the response to that item, once written          (main.rs:154)
    runner,     \* the engine the request built, if it built one    (main.rs:107);
                \* as history, kept while the next item repeats the item
    running,    \* the process has not panicked
    before,     \* history: the installed rules when the item was read
    prev,       \* history: the previous response, kept while the item repeats
                \*          the previous item
    loaded,     \* history: some load-rewrites request has succeeded
    unanswered, \* history: items read and not answered
    arg,        \* analysis call on its own: the arguments
    ret,        \* analysis call on its own: the result
    done,       \* analysis call on its own: the call has been made
    graph,      \* callbacks on a graph: the e-graph
    was,        \* callbacks on a graph: history, the e-graph before the last operation
    last        \* callbacks on a graph: history, the last operation and their number

vars == <<rewrites, pc, read, response, runner, running, before, prev, loaded,
          unanswered, arg, ret, done, graph, was, last>>

callbacks == <<graph, was, last>>

session == <<rewrites, pc, read, response, runner, running, before, prev, loaded,
             unanswered>>

(***************************************************************************)
(* Bounds of the model.                                                    *)
(***************************************************************************)
MaxNum == 4
MaxDen == 4
MaxIters == 5      \* rounds of saturation the model follows
MaxRules == 2      \* rules in one load-rewrites request
MaxExprs == 2      \* expressions in one simplify-expressions request

(***************************************************************************)
(* Exact rationals: num_rational::Ratio<BigInt>.                           *)
(***************************************************************************)
Abs(n) == IF n < 0 THEN -n ELSE n

RECURSIVE Gcd(_, _)
Gcd(a, b) == IF b = 0 THEN Abs(a) ELSE Gcd(b, a % Abs(b))

\* Ratio::new(n, d): reduces to lowest terms with a positive denominator.
\* It panics on d = 0; callers model that case (see DivOf).
RatioNew(n, d) ==
    LET g == Gcd(n, d)
        s == IF d < 0 THEN -1 ELSE 1
    IN  <<(s * n) \div g, (s * d) \div g>>

numer(q) == q[1]
denom(q) == q[2]

Zero == <<0, 1>>
One  == <<1, 1>>

is_zero(q)    == numer(q) = 0
is_integer(q) == denom(q) = 1

RatAdd(a, b) == RatioNew(numer(a) * denom(b) + numer(b) * denom(a), denom(a) * denom(b))
RatSub(a, b) == RatioNew(numer(a) * denom(b) - numer(b) * denom(a), denom(a) * denom(b))
RatMul(a, b) == RatioNew(numer(a) * numer(b), denom(a) * denom(b))
RatDiv(a, b) == RatioNew(numer(a) * denom(b), denom(a) * numer(b))
RatNeg(a)    == <<-numer(a), denom(a)>>
RatAbs(a)    == <<Abs(numer(a)), denom(a)>>

\* Ratio::floor, ::ceil, ::trunc, ::round (round: half away from zero).
RatFloor(a) == <<numer(a) \div denom(a), 1>>
RatCeil(a)  == <<-((-numer(a)) \div denom(a)), 1>>
RatTrunc(a) == IF numer(a) < 0 THEN RatCeil(a) ELSE RatFloor(a)
RatRound(a) ==
    LET half(fr) == IF denom(fr) % 2 = 0
                    THEN numer(fr) >= denom(fr) \div 2
                    ELSE numer(fr) >= (denom(fr) \div 2) + 1
        rounded(trunc) ==
            IF half(RatAbs(RatSub(a, trunc)))
            THEN IF numer(a) >= 0 THEN RatAdd(trunc, One) ELSE RatSub(trunc, One)
            ELSE trunc
    IN  rounded(RatTrunc(a))

\* BigInt pow with a BigUint exponent.
RECURSIVE IntPow(_, _)
IntPow(x, e) == IF e = 0 THEN 1 ELSE x * IntPow(x, e - 1)

\* BigInt::sqrt of a positive integer: the truncated integer square root.
IntSqrt(n) == CHOOSE s \in 0..n : s * s <= n /\ (s + 1) * (s + 1) > n

(***************************************************************************)
(* Option<Constant>, the analysis datum of a class.  Fault is not a datum: *)
(* it is the outcome of make when the arithmetic panics.                   *)
(***************************************************************************)
None    == [tag |-> "None", v |-> Zero]
Some(q) == [tag |-> "Some", v |-> q]
Fault   == [tag |-> "Panic", v |-> Zero]

is_none(d) == d.tag = "None"
is_some(d) == d.tag = "Some"

(***************************************************************************)
(* The term grammar: enum Math (define_language!).  The model keeps the    *)
(* kinds the analysis distinguishes and one representative of each other   *)
(* family (If, Less, Sin, Pi); a kind is named by its enum variant.        *)
(***************************************************************************)
Node(op, children) == [op |-> op, children |-> children, c |-> Zero, s |-> ""]
Constant(q)        == [op |-> "Constant", children |-> <<>>, c |-> q, s |-> ""]
Variable(name)     == [op |-> "Variable", children |-> <<>>, c |-> Zero, s |-> name]

\* Language::is_leaf: a node without children.
is_leaf(n) == Len(n.children) = 0

(***************************************************************************)
(* The e-graph as the analysis sees it: egraph.analysis and, through       *)
(* egraph[id], the class of an id (its nodes and its datum).               *)
(*   unionfind[i] : parent of id i (a root is its own parent)              *)
(*   classes[i]   : [nodes, data] of root i (emptied when i is merged away)*)
(*   memo         : the hash-cons, pairs <<node, id>>                      *)
(*   fault        : a make call panicked while the graph was being built   *)
(***************************************************************************)
ConstantFold(constant_fold, prune) == [constant_fold |-> constant_fold, prune |-> prune]

EGraphNew(analysis) ==
    [analysis |-> analysis, unionfind |-> <<>>, classes |-> <<>>, memo |-> {},
     fault |-> FALSE]

RECURSIVE Find(_, _)
Find(egraph, id) ==
    IF egraph.unionfind[id] = id THEN id ELSE Find(egraph, egraph.unionfind[id])

\* egraph[id]
ClassOf(egraph, id) == egraph.classes[Find(egraph, id)]

Ids(egraph)     == 1..Len(egraph.unionfind)
RootIds(egraph) == {i \in Ids(egraph) : egraph.unionfind[i] = i}

(***************************************************************************)
(* ConstantFold::make.  x(id) is egraph[id].data; `?` returns None as soon *)
(* as an operand is unknown.  Operands are read in the order of the code.  *)
(***************************************************************************)
\* Some(x(a)? / x(b)?) panics in Ratio::new when the divisor is zero.
DivOf(a, b) == IF is_zero(b) THEN Fault ELSE Some(RatDiv(a, b))

\* Math::Div: the guard tests the dividend x(a).
MakeDivGuardDivisor(xa, xb) ==
    IF is_none(xa) \/ is_none(xb) THEN None
    ELSE IF is_zero(xb.v) THEN None
    ELSE DivOf(xa.v, xb.v)

MakeDiv(xa, xb) ==
    IF is_none(xa) THEN None
    ELSE IF is_zero(xa.v) THEN None
    ELSE IF is_none(xb) THEN None
    ELSE DivOf(xa.v, xb.v)

\* Math::Pow: x(b)? is read first; to_biguint()? is None for a negative numerator.
MakePowAnyExponent(xa, xb) ==
    IF is_none(xb) \/ is_none(xa) THEN None
    ELSE LET e == Abs(numer(xb.v))
         IN  Some(RatioNew(IntPow(numer(xa.v), e), IntPow(denom(xa.v), e)))

MakePow(xa, xb) ==
    IF is_none(xb) THEN None
    ELSE IF is_integer(xb.v)
         THEN IF numer(xb.v) < 0 THEN None
              ELSE IF is_none(xa) THEN None
              ELSE LET exponent == numer(xb.v)
                       new_top  == IntPow(numer(xa.v), exponent)
                       new_bot  == IntPow(denom(xa.v), exponent)
                   IN  Some(RatioNew(new_top, new_bot))
         ELSE None

\* Math::Sqrt
MakeSqrtNoReverify(xa) ==
    IF is_none(xa) THEN None
    ELSE IF numer(xa.v) > 0 /\ denom(xa.v) > 0
         THEN Some(RatioNew(IntSqrt(numer(xa.v)), IntSqrt(denom(xa.v))))
         ELSE None

MakeSqrt(xa) ==
    IF is_none(xa) THEN None
    ELSE LET a == xa.v
         IN  IF numer(a) > 0 /\ denom(a) > 0
             THEN LET s1 == IntSqrt(numer(a))
                      s2 == IntSqrt(denom(a))
                      is_perfect == s1 * s1 = numer(a) /\ s2 * s2 = denom(a)
                  IN  IF is_perfect THEN Some(RatioNew(s1, s2)) ELSE None
             ELSE None

\* The match of make, xa and xb being x(a) and x(b).
MakeArm(enode, xa, xb) ==
    CASE enode.op = "Add" ->
           IF is_none(xa) \/ is_none(xb) THEN None ELSE Some(RatAdd(xa.v, xb.v))
      [] enode.op = "Sub" ->
           IF is_none(xa) \/ is_none(xb) THEN None ELSE Some(RatSub(xa.v, xb.v))
      [] enode.op = "Mul" ->
           IF is_none(xa) \/ is_none(xb) THEN None ELSE Some(RatMul(xa.v, xb.v))
      [] enode.op = "Div"   -> MakeDiv(xa, xb)
      [] enode.op = "Neg"   -> IF is_none(xa) THEN None ELSE Some(RatNeg(xa.v))
      [] enode.op = "Pow"   -> MakePow(xa, xb)
      [] enode.op = "Sqrt"  -> MakeSqrt(xa)
      [] enode.op = "Fabs"  -> IF is_none(xa) THEN None ELSE Some(RatAbs(xa.v))
      [] enode.op = "Floor" -> IF is_none(xa) THEN None ELSE Some(RatFloor(xa.v))
      [] enode.op = "Ceil"  -> IF is_none(xa) THEN None ELSE Some(RatCeil(xa.v))
      [] enode.op = "Round" -> IF is_none(xa) THEN None ELSE Some(RatRound(xa.v))
      [] OTHER -> None

\* A variant of make that does not look at the folding flag.
MakeIgnoresFlag(egraph, enode) ==
    LET x(i) == IF i <= Len(enode.children)
                THEN ClassOf(egraph, enode.children[i]).data
                ELSE None
    IN  MakeArm(enode, x(1), x(2))

make(egraph, enode) ==
    IF ~egraph.analysis.constant_fold THEN None
    ELSE LET x(i) == IF i <= Len(enode.children)
                     THEN ClassOf(egraph, enode.children[i]).data
                     ELSE None
         IN  MakeArm(enode, x(1), x(2))

\* A variant of merge that lets the incoming value win whenever it is known.
MergeIncomingWins(to, from) ==
    IF is_some(from)
    THEN [to |-> from, changed |-> TRUE]
    ELSE [to |-> to, changed |-> FALSE]

\* ConstantFold::merge: the new value of `to` and whether it changed.
merge(to, from) ==
    IF is_none(to) /\ is_some(from)
    THEN [to |-> from, changed |-> TRUE]
    ELSE [to |-> to, changed |-> FALSE]

(***************************************************************************)
(* The rewriting engine the analysis is called back from: adding a node    *)
(* (make, then modify), uniting two classes (merge, then modify).          *)
(***************************************************************************)
\* A node with every child replaced by the root of its class.
Canonical(egraph, enode) ==
    [enode EXCEPT !.children = [i \in 1..Len(enode.children) |->
                                    Find(egraph, enode.children[i])]]

Lookup(egraph, enode) ==
    LET first(hits) == IF hits = {} THEN 0
                       ELSE Find(egraph, (CHOOSE m \in hits : TRUE)[2])
        probe(n)    == first({m \in egraph.memo : Canonical(egraph, m[1]) = n})
    IN  probe(Canonical(egraph, enode))

\* Vec::retain(|n| n.is_leaf())
RECURSIVE RetainLeaves(_)
RetainLeaves(nodes) ==
    IF nodes = <<>> THEN <<>>
    ELSE IF is_leaf(Head(nodes))
         THEN <<Head(nodes)>> \o RetainLeaves(Tail(nodes))
         ELSE RetainLeaves(Tail(nodes))

RECURSIVE EGraphAdd(_, _)
RECURSIVE AddOrFind(_, _, _)
RECURSIVE AddNew(_, _, _)
RECURSIVE AddMade(_, _, _, _)
RECURSIVE Union(_, _, _)
RECURSIVE UnionRoots(_, _, _)
RECURSIVE modify(_, _)
RECURSIVE ModifyData(_, _, _)
RECURSIVE ModifyAdded(_, _)
RECURSIVE ModifyPrune(_)

\* EGraph::add: an existing node is found again through the hash-cons; a new
\* node gets a class of its own whose datum is make's, and modify runs on it.
EGraphAdd(egraph, enode) == AddOrFind(egraph, enode, Lookup(egraph, enode))

AddOrFind(egraph, enode, found) ==
    IF found # 0 THEN [egraph |-> egraph, id |-> found]
    ELSE AddNew(egraph, Canonical(egraph, enode), Len(egraph.unionfind) + 1)

AddNew(egraph, n, id) == AddMade(egraph, n, id, make(egraph, n))

AddMade(egraph, n, id, made) ==
    [egraph |-> modify([egraph EXCEPT
                          !.unionfind = Append(@, id),
                          !.classes   = Append(@, [nodes |-> <<n>>,
                                                   data  |-> IF made = Fault THEN None
                                                             ELSE made]),
                          !.memo      = @ \cup {<<n, id>>},
                          !.fault     = @ \/ made = Fault], id),
     id |-> id]

\* EGraph::union: the first class absorbs the second; the data are merged by
\* ConstantFold::merge and modify runs on the united class.
Union(egraph, id1, id2) == UnionRoots(egraph, Find(egraph, id1), Find(egraph, id2))

UnionRoots(egraph, to, from) ==
    IF to = from THEN [egraph |-> egraph, id |-> to]
    ELSE [egraph |-> modify(
             [egraph EXCEPT
                !.unionfind[from] = to,
                !.classes[to]   = [nodes |-> egraph.classes[to].nodes
                                             \o egraph.classes[from].nodes,
                                   data  |-> merge(egraph.classes[to].data,
                                                   egraph.classes[from].data).to],
                !.classes[from] = [nodes |-> <<>>, data |-> None]], to),
          id |-> to]

\* ConstantFold::modify
modify(egraph, id) == ModifyData(egraph, id, ClassOf(egraph, id).data)

\* if let Some(c) = data: add the constant and unite it with the class
ModifyData(egraph, id, data) ==
    IF is_some(data)
    THEN ModifyAdded(id, EGraphAdd(egraph, Constant(data.v)))
    ELSE egraph

ModifyAdded(id, added) == ModifyPrune(Union(added.egraph, id, added.id))

\* A variant of the pruning step that keeps every node of the class.
ModifyKeepsAll(united) == united.egraph

\* if egraph.analysis.prune: only the leaves of the class are kept
ModifyPrune(united) ==
    IF united.egraph.analysis.prune
    THEN [united.egraph EXCEPT !.classes[united.id].nodes = RetainLeaves(@)]
    ELSE united.egraph

\* EGraph::total_size: the number of nodes over all classes.
RECURSIVE SumNodes(_, _)
SumNodes(egraph, i) ==
    IF i = 0 THEN 0 ELSE Len(egraph.classes[i].nodes) + SumNodes(egraph, i - 1)

total_size(egraph) == SumNodes(egraph, Len(egraph.classes))

(***************************************************************************)
(* Rebuilding: nodes are made canonical, classes holding the same node are *)
(* united (congruence), and a class's datum is made again from its nodes   *)
(* until nothing changes.                                                  *)
(***************************************************************************)
RECURSIVE Dedup(_, _)
Dedup(nodes, seen) ==
    IF nodes = <<>> THEN <<>>
    ELSE IF Head(nodes) \in seen THEN Dedup(Tail(nodes), seen)
         ELSE <<Head(nodes)>> \o Dedup(Tail(nodes), seen \cup {Head(nodes)})

CanonAll(egraph) ==
    [egraph EXCEPT !.classes = [i \in 1..Len(egraph.classes) |->
        [egraph.classes[i] EXCEPT !.nodes =
            Dedup([k \in 1..Len(@) |-> Canonical(egraph, @[k])], {})]]]

NodeSet(egraph, i) == {egraph.classes[i].nodes[k] : k \in 1..Len(egraph.classes[i].nodes)}

\* Pairs of classes that hold a common node.
CongruentPairs(eg, roots) ==
    {p \in roots \X roots :
        p[1] < p[2] /\ NodeSet(eg, p[1]) \cap NodeSet(eg, p[2]) # {}}

\* make on node p[2] of class p[1]
Remake(eg, p) == make(eg, eg.classes[p[1]].nodes[p[2]])

IsStale(eg, p, made) == made = Fault \/ merge(eg.classes[p[1]].data, made).changed

\* Nodes whose value faults or would change the datum of their class.
StaleNodes(eg, roots) ==
    {p \in roots \X (1..total_size(eg)) :
        p[2] <= Len(eg.classes[p[1]].nodes) /\ IsStale(eg, p, Remake(eg, p))}

\* What the rebuild does next: unite a pair, make a node again, or stop.
RebuildPick(pairs, stale) ==
    IF pairs # {} THEN [do |-> "union", p |-> CHOOSE p \in pairs : TRUE, made |-> None]
    ELSE IF stale # {} THEN [do |-> "make", p |-> CHOOSE p \in stale : TRUE, made |-> None]
    ELSE [do |-> "stop", p |-> <<0, 0>>, made |-> None]

RebuildPlan(eg, pick) ==
    IF pick.do = "make" THEN [pick EXCEPT !.made = Remake(eg, pick.p)] ELSE pick

RECURSIVE Rebuild(_)
RECURSIVE RebuildStep(_, _)
RECURSIVE RebuildCanon(_, _)

RebuildStep(eg, todo) ==
    Rebuild(IF todo.do = "union" THEN Union(eg, todo.p[1], todo.p[2]).egraph
            ELSE modify([eg EXCEPT !.classes[todo.p[1]].data = todo.made], todo.p[1]))

RebuildCanon(eg, todo) ==
    IF eg.fault \/ todo.do = "stop" THEN eg
    ELSE IF todo.do = "make" /\ todo.made = Fault THEN [eg EXCEPT !.fault = TRUE]
    ELSE RebuildStep(eg, todo)

RebuildRoots(eg, roots) ==
    RebuildCanon(eg, RebuildPlan(eg, RebuildPick(CongruentPairs(eg, roots),
                                                 StaleNodes(eg, roots))))

Rebuild(egraph) == RebuildRoots(CanonAll(egraph), RootIds(CanonAll(egraph)))

(***************************************************************************)
(* Expressions and patterns: RecExpr, a sequence of nodes whose children   *)
(* are indices of earlier nodes; the last node is the root.  A pattern may *)
(* hold pattern variables (nodes of kind PatVar).                          *)
(***************************************************************************)
PatVar(name) == [op |-> "PatVar", children |-> <<>>, c |-> Zero, s |-> name]

PatVarNames == {"?a", "?b"}

\* EGraph::add_expr: the nodes are added in order; the result is the root's id.
RECURSIVE AddExprFrom(_, _, _, _)
RECURSIVE AddExprNext(_, _, _, _)

AddExprFrom(egraph, expr, i, ids) ==
    IF i > Len(expr) THEN [egraph |-> egraph, id |-> ids[Len(ids)]]
    ELSE AddExprNext(expr, i, ids,
            EGraphAdd(egraph, [expr[i] EXCEPT !.children = [k \in 1..Len(@) |-> ids[@[k]]]]))

\* r: the graph and the id after node i was added
AddExprNext(expr, i, ids, r) == AddExprFrom(r.egraph, expr, i + 1, Append(ids, r.id))

add_expr(egraph, expr) == AddExprFrom(egraph, expr, 1, <<>>)

(***************************************************************************)
(* Searching a pattern in a class and applying a rule.                     *)
(***************************************************************************)
NoSubst == [v \in PatVarNames |-> 0]

RECURSIVE MatchAt(_, _, _, _, _)
RECURSIVE MatchChildren(_, _, _, _, _, _)

\* The substitutions of `substs` extended so that pattern node i matches class id.
MatchAt(egraph, pat, i, id, substs) ==
    LET p    == pat[i]
        root == Find(egraph, id)
    IN  IF p.op = "PatVar"
        THEN {[su EXCEPT ![p.s] = root] : su \in {t \in substs : t[p.s] \in {0, root}}}
        ELSE UNION {MatchChildren(egraph, pat, p.children, n.children, 1, substs) :
                      n \in {m \in NodeSet(egraph, root) :
                                /\ m.op = p.op /\ m.c = p.c /\ m.s = p.s
                                /\ Len(m.children) = Len(p.children)}}

MatchChildren(egraph, pat, pch, nch, k, substs) ==
    IF k > Len(pch) \/ substs = {} THEN substs
    ELSE MatchChildren(egraph, pat, pch, nch, k + 1,
                       MatchAt(egraph, pat, pch[k], nch[k], substs))

\* Searcher::search: every (class, substitution) the left pattern matches.
Search(egraph, k, rw) ==
    UNION {{[rule |-> k, class |-> id, subst |-> su] :
              su \in MatchAt(egraph, rw.lhs, Len(rw.lhs), id, {NoSubst})} :
           id \in RootIds(egraph)}

RECURSIVE Instantiate(_, _, _, _, _)
RECURSIVE InstantiateNext(_, _, _, _, _)

\* Applier: the right pattern built in the graph under a substitution.
Instantiate(egraph, pat, i, su, ids) ==
    IF i > Len(pat) THEN [egraph |-> egraph, id |-> ids[Len(ids)]]
    ELSE IF pat[i].op = "PatVar"
         THEN Instantiate(egraph, pat, i + 1, su, Append(ids, su[pat[i].s]))
         ELSE InstantiateNext(pat, i, su, ids,
                 EGraphAdd(egraph, [pat[i] EXCEPT
                                      !.children = [k \in 1..Len(@) |-> ids[@[k]]]]))

InstantiateNext(pat, i, su, ids, r) ==
    Instantiate(r.egraph, pat, i + 1, su, Append(ids, r.id))

RECURSIVE SetToSeq(_)
SetToSeq(S) ==
    IF S = {} THEN <<>>
    ELSE LET x == CHOOSE x \in S : TRUE IN <<x>> \o SetToSeq(S \ {x})

RECURSIVE ApplyMatches(_, _, _)
RECURSIVE ApplyOne(_, _, _, _)

\* Rewrite::apply: each match's right side is built and united with the
\* class that matched.
ApplyMatches(egraph, rws, matches) ==
    IF matches = <<>> \/ egraph.fault THEN egraph
    ELSE ApplyOne(rws, matches, Head(matches).class,
                  Instantiate(egraph, rws[Head(matches).rule].rhs, 1,
                              Head(matches).subst, <<>>))

ApplyOne(rws, matches, class, r) ==
    ApplyMatches(Union(r.egraph, class, r.id).egraph, rws, Tail(matches))

(***************************************************************************)
(* Runner: the saturation loop.  It stops when a round changes nothing,    *)
(* when the graph has grown past node_limit, or when a make call panics.   *)
(***************************************************************************)
\* with_node_limit(10_000); it is also the engine's default.
NodeLimit == 10000

RunnerNew(analysis) ==
    [egraph |-> EGraphNew(analysis), roots |-> <<>>, iterations |-> <<>>,
     node_limit |-> NodeLimit, stop_reason |-> "None"]

with_node_limit(r, n) == [r EXCEPT !.node_limit = n]

\* Runner::with_expr: the expression is added and its class becomes a root.
WithAdded(r, added) == [r EXCEPT !.egraph = added.egraph, !.roots = Append(@, added.id)]

with_expr(r, e) == WithAdded(r, add_expr(r.egraph, e))

\* One round: search every rule, apply the matches, rebuild.
Iteration(rebuilt, matches) ==
    [egraph_nodes   |-> total_size(rebuilt),
     egraph_classes |-> Cardinality(RootIds(rebuilt)),
     matches        |-> Cardinality(matches)]

RECURSIVE run(_, _)
RECURSIVE RunRebuilt(_, _, _, _, _)

RunRebuilt(r, rws, matches, changed, rebuilt) ==
    IF changed
    THEN run([r EXCEPT !.egraph = rebuilt,
                       !.iterations = Append(@, Iteration(rebuilt, matches))], rws)
    ELSE [r EXCEPT !.egraph = rebuilt,
                   !.iterations = Append(@, Iteration(rebuilt, matches)),
                   !.stop_reason = "Saturated"]

RunApplied(r, rws, matches, applied) ==
    RunRebuilt(r, rws, matches, applied # r.egraph, Rebuild(applied))

RunMatches(r, rws, matches) ==
    RunApplied(r, rws, matches, ApplyMatches(r.egraph, rws, SetToSeq(matches)))

run(r, rws) ==
    IF r.egraph.fault THEN r
    ELSE IF Len(r.iterations) >= MaxIters THEN [r EXCEPT !.stop_reason = "IterationLimit"]
    ELSE IF total_size(r.egraph) > r.node_limit THEN [r EXCEPT !.stop_reason = "NodeLimit"]
    ELSE RunMatches(r, rws, UNION {Search(r.egraph, k, rws[k]) : k \in 1..Len(rws)})

(***************************************************************************)
(* Extractor with AstSize: a node costs 1 plus the cost of its children's  *)
(* classes; a class costs what its cheapest node costs.  Cost 0 stands for *)
(* "no term found yet".                                                    *)
(***************************************************************************)
RECURSIVE SumCosts(_, _, _, _)
SumCosts(egraph, costs, children, k) ==
    IF k > Len(children) THEN 0
    ELSE costs[Find(egraph, children[k])] + SumCosts(egraph, costs, children, k + 1)

\* AstSize::cost, defined once every child class has a cost.
NodeCost(egraph, costs, n) ==
    IF \E k \in 1..Len(n.children) : costs[Find(egraph, n.children[k])] = 0
    THEN 0
    ELSE 1 + SumCosts(egraph, costs, n.children, 1)

Min(S) == CHOOSE x \in S : \A y \in S : x <= y

\* The cost of a class: that of its cheapest node with a cost.
ClassCost(found) == IF found = {} THEN 0 ELSE Min(found)

RECURSIVE find_costs(_, _)
RECURSIVE FindCostsNext(_, _, _)

find_costs(egraph, costs) ==
    FindCostsNext(egraph, costs,
        [i \in Ids(egraph) |->
            ClassCost({NodeCost(egraph, costs, n) : n \in NodeSet(egraph, i)} \ {0})])

FindCostsNext(egraph, costs, new) ==
    IF new = costs THEN costs ELSE find_costs(egraph, new)

ExtractorNew(egraph) ==
    [egraph |-> egraph, costs |-> find_costs(egraph, [i \in Ids(egraph) |-> 0])]

\* The first node of the class that attains the class's cost.
BestNode(ex, root) ==
    LET nodes == ex.egraph.classes[root].nodes
        k     == Min({j \in 1..Len(nodes) :
                        NodeCost(ex.egraph, ex.costs, nodes[j]) = ex.costs[root]})
    IN  nodes[k]

RECURSIVE find_best_rec(_, _, _)
RECURSIVE BestChildren(_, _, _, _, _)
RECURSIVE BestOf(_, _, _)
RECURSIVE BestNext(_, _, _, _, _)

\* The term with root node n once its children's terms are in ch.expr.
BestBuilt(n, ch) ==
    [expr |-> Append(ch.expr, [n EXCEPT !.children = ch.ids]), id |-> Len(ch.expr) + 1]

BestOf(ex, expr, n) == BestBuilt(n, BestChildren(ex, expr, n.children, 1, <<>>))

\* The best term of a class appended to expr; id is the index of its root.
find_best_rec(ex, expr, id) == BestOf(ex, expr, BestNode(ex, Find(ex.egraph, id)))

BestChildren(ex, expr, children, k, ids) ==
    IF k > Len(children) THEN [expr |-> expr, ids |-> ids]
    ELSE BestNext(ex, children, k, ids, find_best_rec(ex, expr, children[k]))

BestNext(ex, children, k, ids, r) ==
    BestChildren(ex, r.expr, children, k + 1, Append(ids, r.id))

\* Extractor::find_best: (cost, term) of the class of id.
find_best(ex, id) ==
    [cost |-> ex.costs[Find(ex.egraph, id)], expr |-> find_best_rec(ex, <<>>, id).expr]

(***************************************************************************)
(* Parsing.  A text is its sequence of tokens: "(", ")" and atoms.         *)
(* FromStr builds a RecExpr bottom-up; from_op_str picks the node kind of  *)
(* an operator token and its arguments, in the order define_language!      *)
(* tries the variants: the named kinds (token and arity must both match),  *)
(* then Constant (a numeral), then Variable (any other childless token).   *)
(***************************************************************************)
OpTable ==
    [t \in {"if", "<", "+", "-", "*", "/", "pow", "neg", "sqrt", "fabs",
            "floor", "ceil", "round", "sin", "PI"} |->
        CASE t = "if"    -> [op |-> "If",    arity |-> 3]
          [] t = "<"     -> [op |-> "Less",  arity |-> 2]
          [] t = "+"     -> [op |-> "Add",   arity |-> 2]
          [] t = "-"     -> [op |-> "Sub",   arity |-> 2]
          [] t = "*"     -> [op |-> "Mul",   arity |-> 2]
          [] t = "/"     -> [op |-> "Div",   arity |-> 2]
          [] t = "pow"   -> [op |-> "Pow",   arity |-> 2]
          [] t = "neg"   -> [op |-> "Neg",   arity |-> 1]
          [] t = "sqrt"  -> [op |-> "Sqrt",  arity |-> 1]
          [] t = "fabs"  -> [op |-> "Fabs",  arity |-> 1]
          [] t = "floor" -> [op |-> "Floor", arity |-> 1]
          [] t = "ceil"  -> [op |-> "Ceil",  arity |-> 1]
          [] t = "round" -> [op |-> "Round", arity |-> 1]
          [] t = "sin"   -> [op |-> "Sin",   arity |-> 1]
          [] t = "PI"    -> [op |-> "Pi",    arity |-> 0]]

\* BigRational::from_str on the numerals the model's texts use.
Numerals ==
    [t \in {"0", "1", "2", "3", "4", "1/2", "4/9"} |->
        CASE t = "0"   -> <<0, 1>>
          [] t = "1"   -> <<1, 1>>
          [] t = "2"   -> <<2, 1>>
          [] t = "3"   -> <<3, 1>>
          [] t = "4"   -> <<4, 1>>
          [] t = "1/2" -> <<1, 2>>
          [] t = "4/9" -> <<4, 9>>]

ParseErr(msg) == [ok |-> FALSE, node |-> Variable(""), error |-> msg]
ParseOk(n)    == [ok |-> TRUE, node |-> n, error |-> ""]

\* Language::from_op_str; in a pattern a childless token "?x" is a variable.
from_op_str(op, children, pattern) ==
    IF pattern /\ op \in PatVarNames /\ children = <<>> THEN ParseOk(PatVar(op))
    ELSE IF op \in DOMAIN OpTable /\ OpTable[op].arity = Len(children)
    THEN ParseOk(Node(OpTable[op].op, children))
    ELSE IF children = <<>> /\ op \in DOMAIN Numerals THEN ParseOk(Constant(Numerals[op]))
    ELSE IF children = <<>> THEN ParseOk(Variable(op))
    ELSE ParseErr("bad op")

Failed(msg) == [ok |-> FALSE, pos |-> 0, expr |-> <<>>, ids |-> <<>>, error |-> msg]

RECURSIVE ParseAt(_, _, _, _)
RECURSIVE ParseArgs(_, _, _, _, _)
RECURSIVE ParseList(_, _, _, _)
RECURSIVE ParseArgsNext(_, _, _, _)

\* The node n appended to expr, the next token being at pos.
Parsed(n, pos, expr) ==
    IF n.ok
    THEN [ok |-> TRUE, pos |-> pos, expr |-> Append(expr, n.node),
          ids |-> <<Len(expr) + 1>>, error |-> ""]
    ELSE Failed(n.error)

\* A list whose head is tokens[pos + 1], its arguments parsed into args.
ParseList(tokens, pos, pattern, args) ==
    IF ~args.ok THEN args
    ELSE Parsed(from_op_str(tokens[pos + 1], args.ids, pattern), args.pos, args.expr)

\* One s-expression starting at tokens[pos], its nodes appended to expr.
ParseAt(tokens, pos, expr, pattern) ==
    IF pos > Len(tokens) THEN Failed("unexpected end of input")
    ELSE IF tokens[pos] = ")" THEN Failed("unexpected )")
    ELSE IF tokens[pos] # "("
    THEN Parsed(from_op_str(tokens[pos], <<>>, pattern), pos + 1, expr)
    ELSE IF pos + 1 > Len(tokens) THEN Failed("unexpected end of input")
    ELSE IF tokens[pos + 1] = ")" THEN Failed("Found empty s-expression")
    ELSE IF tokens[pos + 1] = "(" THEN Failed("Found a list in the head position")
    ELSE ParseList(tokens, pos, pattern, ParseArgs(tokens, pos + 2, expr, <<>>, pattern))

\* The arguments up to the closing parenthesis.
ParseArgs(tokens, pos, expr, ids, pattern) ==
    IF pos > Len(tokens) THEN Failed("unexpected end of input")
    ELSE IF tokens[pos] = ")"
    THEN [ok |-> TRUE, pos |-> pos + 1, expr |-> expr, ids |-> ids, error |-> ""]
    ELSE ParseArgsNext(tokens, ids, pattern, ParseAt(tokens, pos, expr, pattern))

ParseArgsNext(tokens, ids, pattern, a) ==
    IF ~a.ok THEN a
    ELSE ParseArgs(tokens, a.pos, a.expr, ids \o a.ids, pattern)

\* The whole text must be one s-expression.
FromStrEnd(tokens, r) ==
    IF ~r.ok THEN [ok |-> FALSE, expr |-> <<>>, error |-> r.error]
    ELSE IF r.pos <= Len(tokens)
    THEN [ok |-> FALSE, expr |-> <<>>, error |-> "trailing input"]
    ELSE [ok |-> TRUE, expr |-> r.expr, error |-> ""]

\* FromStr: Ok(expr) or Err(message).
FromStr(tokens, pattern) ==
    IF tokens = <<>> THEN [ok |-> FALSE, expr |-> <<>>, error |-> "Found empty s-expression"]
    ELSE FromStrEnd(tokens, ParseAt(tokens, 1, <<>>, pattern))

\* egg::Pattern::from_str and str::parse::<RecExpr>
PatternFromStr(tokens) == FromStr(tokens, TRUE)
ExprParse(tokens)      == FromStr(tokens, FALSE)

(***************************************************************************)
(* The session: requests, responses and State::handle_request.             *)
(***************************************************************************)
Request(kind, rws, exprs, fold) ==
    [request |-> kind, rewrites |-> rws, exprs |-> exprs, constant_fold |-> fold]

default_constant_fold == TRUE

\* serde: a record of an unknown kind is an error; an absent constant-fold
\* field (<<>>) takes its default.
Deserialize(raw) ==
    IF raw.request \in {"version", "load-rewrites", "simplify-expressions"}
    THEN [ok |-> TRUE,
          req |-> Request(raw.request, raw.rewrites, raw.exprs,
                          IF raw.constant_fold = <<>> THEN default_constant_fold
                          ELSE raw.constant_fold[1])]
    ELSE [ok |-> FALSE, req |-> Request("malformed", <<>>, <<>>, TRUE)]

Response(kind) ==
    [response |-> kind, error |-> "", version |-> "", n |-> 0,
     iterations |-> <<>>, best |-> <<>>]

ResponseError(msg)   == [Response("error") EXCEPT !.error = msg]
ResponseVersion      == [Response("version") EXCEPT !.version = "CARGO_PKG_VERSION"]
ResponseLoadRewrites(n) == [Response("load-rewrites") EXCEPT !.n = n]
ResponseSimplifyExpressions(its, best) ==
    [Response("simplify-expressions") EXCEPT !.iterations = its, !.best = best]

NoRulesError == "You haven't loaded any rewrites yet!"

Comparison(initial, final) ==
    [initial_expr |-> initial.expr, initial_cost |-> initial.cost,
     final_expr   |-> final.expr,   final_cost   |-> final.cost]

\* math::Rewrite::new(name, long_name, searcher, applier)
RewriteNew(name, long_name, lhs, rhs) ==
    [name |-> name, long_name |-> long_name, lhs |-> lhs, rhs |-> rhs]

\* The loop of LoadRewrites: respond_error! returns at the first pattern
\* that does not parse, the left one of a rule before its right one.
RECURSIVE ParseRewrites(_, _, _)
RECURSIVE ParsedRule(_, _, _, _, _)

ParseRewrites(rws, i, new_rewrites) ==
    IF i > Len(rws) THEN [ok |-> TRUE, rewrites |-> new_rewrites, error |-> ""]
    ELSE ParsedRule(rws, i, new_rewrites,
                    PatternFromStr(rws[i].lhs), PatternFromStr(rws[i].rhs))

\* Rule i once its two patterns went through the parser.
ParsedRule(rws, i, new_rewrites, lhs, rhs) ==
    IF ~lhs.ok THEN [ok |-> FALSE, rewrites |-> new_rewrites, error |-> lhs.error]
    ELSE IF ~rhs.ok THEN [ok |-> FALSE, rewrites |-> new_rewrites, error |-> rhs.error]
    ELSE ParseRewrites(rws, i + 1,
            Append(new_rewrites, RewriteNew(rws[i].name, rws[i].name, lhs.expr, rhs.expr)))

\* The loop of SimplifyExpressions: each expression is parsed and seeded.
RECURSIVE SeedExprs(_, _, _)
RECURSIVE SeedParsed(_, _, _, _)

\* Variant: an expression that does not parse is left out.
SeedParsedSkips(r, exprs, i, e) ==
    IF ~e.ok THEN SeedExprs(r, exprs, i + 1)
    ELSE SeedExprs(with_expr(r, e.expr), exprs, i + 1)

SeedExprs(r, exprs, i) ==
    IF i > Len(exprs) \/ r.egraph.fault THEN [ok |-> TRUE, runner |-> r, error |-> ""]
    ELSE SeedParsed(r, exprs, i, ExprParse(exprs[i]))

SeedParsed(r, exprs, i, e) ==
    IF ~e.ok THEN [ok |-> FALSE, runner |-> r, error |-> e.error]
    ELSE SeedExprs(with_expr(r, e.expr), exprs, i + 1)

FindBestWith(r, ex) == [i \in 1..Len(r.roots) |-> find_best(ex, r.roots[i])]

\* runner.roots.iter().map(find_best)
FindBestAll(r) == FindBestWith(r, ExtractorNew(r.egraph))

\* The analysis of a request; pruning is on.
AnalysisOf(constant_fold) == ConstantFold(constant_fold, TRUE)

\* Variant: the engine of the previous request is used again.
ReusedRunner(constant_fold) ==
    with_node_limit([runner EXCEPT !.egraph.analysis = AnalysisOf(constant_fold),
                                   !.iterations = <<>>], NodeLimit)

\* The engine a simplify-expressions request starts from.
FreshRunner(constant_fold) ==
    with_node_limit(RunnerNew(AnalysisOf(constant_fold)), NodeLimit)

Outcome(rws, resp, r, panicked) ==
    [rewrites |-> rws, response |-> resp, runner |-> r, panicked |-> panicked]

HandleVersion(state_rewrites, old_runner) ==
    Outcome(state_rewrites, ResponseVersion, old_runner, FALSE)

\* Variant: the rules are pushed into the installed set as they parse.
LoadParsedPartial(state_rewrites, old_runner, parsed) ==
    IF ~parsed.ok
    THEN Outcome(parsed.rewrites, ResponseError(parsed.error), old_runner, FALSE)
    ELSE Outcome(parsed.rewrites, ResponseLoadRewrites(Len(parsed.rewrites)),
                 old_runner, FALSE)

HandleLoadRewritesPartial(state_rewrites, old_runner, req) ==
    LoadParsedPartial(state_rewrites, old_runner, ParseRewrites(req.rewrites, 1, <<>>))

\* Variant: the parsed rules extend the installed set.
LoadParsedExtend(state_rewrites, old_runner, parsed) ==
    IF ~parsed.ok
    THEN Outcome(state_rewrites, ResponseError(parsed.error), old_runner, FALSE)
    ELSE Outcome(state_rewrites \o parsed.rewrites,
                 ResponseLoadRewrites(Len(state_rewrites \o parsed.rewrites)),
                 old_runner, FALSE)

HandleLoadRewritesExtend(state_rewrites, old_runner, req) ==
    LoadParsedExtend(state_rewrites, old_runner, ParseRewrites(req.rewrites, 1, <<>>))

\* Variant: a load of an empty list keeps the installed rules.
LoadParsedKeepsOnEmpty(state_rewrites, old_runner, parsed) ==
    IF ~parsed.ok
    THEN Outcome(state_rewrites, ResponseError(parsed.error), old_runner, FALSE)
    ELSE IF parsed.rewrites = <<>>
    THEN Outcome(state_rewrites, ResponseLoadRewrites(0), old_runner, FALSE)
    ELSE Outcome(parsed.rewrites, ResponseLoadRewrites(Len(parsed.rewrites)),
                 old_runner, FALSE)

\* self.rewrites = new_rewrites, and the count, once every pattern parsed.
LoadParsed(state_rewrites, old_runner, parsed) ==
    IF ~parsed.ok
    THEN Outcome(state_rewrites, ResponseError(parsed.error), old_runner, FALSE)
    ELSE Outcome(parsed.rewrites, ResponseLoadRewrites(Len(parsed.rewrites)),
                 old_runner, FALSE)

HandleLoadRewrites(state_rewrites, old_runner, req) ==
    LoadParsed(state_rewrites, old_runner, ParseRewrites(req.rewrites, 1, <<>>))

\* Variant: the final terms are zipped in the opposite order.
SimplifyComparedReversed(state_rewrites, ran, initial, final) ==
    Outcome(state_rewrites,
            ResponseSimplifyExpressions(ran.iterations,
                [i \in 1..Len(ran.roots) |->
                    Comparison(initial[i], final[Len(ran.roots) + 1 - i])]),
            ran, FALSE)

\* Variant: each comparison has its initial and final sides exchanged.
SimplifyComparedSwapped(state_rewrites, ran, initial, final) ==
    Outcome(state_rewrites,
            ResponseSimplifyExpressions(ran.iterations,
                [i \in 1..Len(ran.roots) |-> Comparison(final[i], initial[i])]),
            ran, FALSE)

\* The response after the run: one Comparison per root.
SimplifyCompared(state_rewrites, ran, initial, final) ==
    Outcome(state_rewrites,
            ResponseSimplifyExpressions(ran.iterations,
                [i \in 1..Len(ran.roots) |-> Comparison(initial[i], final[i])]),
            ran, FALSE)

\* Variant: a run that did not converge is answered with an error.
SimplifyRanStrict(state_rewrites, initial, ran) ==
    IF ran.egraph.fault
    THEN Outcome(state_rewrites, Response("none"), ran, TRUE)
    ELSE IF ran.stop_reason # "Saturated"
    THEN Outcome(state_rewrites, ResponseError(ran.stop_reason), ran, FALSE)
    ELSE SimplifyCompared(state_rewrites, ran, initial, FindBestAll(ran))

SimplifyRan(state_rewrites, initial, ran) ==
    IF ran.egraph.fault
    THEN Outcome(state_rewrites, Response("none"), ran, TRUE)
    ELSE SimplifyCompared(state_rewrites, ran, initial, FindBestAll(ran))

\* The expressions are in the graph: extract, run, extract again.
SimplifySeeded(state_rewrites, seeded) ==
    IF ~seeded.ok
    THEN Outcome(state_rewrites, ResponseError(seeded.error), seeded.runner, FALSE)
    ELSE IF seeded.runner.egraph.fault
    THEN Outcome(state_rewrites, Response("none"), seeded.runner, TRUE)
    ELSE SimplifyRan(state_rewrites, FindBestAll(seeded.runner),
                     run(seeded.runner, state_rewrites))

\* SimplifyExpressions once rules are known to be installed.
SimplifyBody(state_rewrites, old_runner, req) ==
    SimplifySeeded(state_rewrites, SeedExprs(FreshRunner(req.constant_fold), req.exprs, 1))

\* Variant: no test for an empty rule set.
HandleSimplifyUnguarded(state_rewrites, old_runner, req) ==
    SimplifyBody(state_rewrites, old_runner, req)

HandleSimplifyExpressions(state_rewrites, old_runner, req) ==
    IF state_rewrites = <<>>
    THEN Outcome(state_rewrites, ResponseError(NoRulesError), old_runner, FALSE)
    ELSE SimplifyBody(state_rewrites, old_runner, req)

\* State::handle_request
handle_request(state_rewrites, old_runner, req) ==
    CASE req.request = "version" -> HandleVersion(state_rewrites, old_runner)
      [] req.request = "load-rewrites" -> HandleLoadRewrites(state_rewrites, old_runner, req)
      [] req.request = "simplify-expressions" ->
            HandleSimplifyExpressions(state_rewrites, old_runner, req)

\* Variant: a deserialization error ends main.
MainLoopBodyStops(state_rewrites, old_runner, item) ==
    IF ~item.ok
    THEN Outcome(state_rewrites, Response("none"), old_runner, TRUE)
    ELSE handle_request(state_rewrites, old_runner, item.req)

\* The body of main's loop for one item of the deserializer.
MainLoopBody(state_rewrites, old_runner, item) ==
    IF ~item.ok
    THEN Outcome(state_rewrites, ResponseError("Deserialization error"), old_runner, FALSE)
    ELSE handle_request(state_rewrites, old_runner, item.req)

(***************************************************************************)
(* The inputs the model draws from.                                        *)
(***************************************************************************)
SeqsUpTo(S, n) == UNION {[1..k -> S] : k \in 0..n}

RewriteStr(name, lhs, rhs) == [name |-> name, lhs |-> lhs, rhs |-> rhs]

\* (+ a b) => (+ b a)
CommAdd == RewriteStr("comm-add", <<"(", "+", "a", "b", ")">>, <<"(", "+", "b", "a", ")">>)
\* (+ ?a 0) => ?a
AddZero == RewriteStr("add-zero", <<"(", "+", "?a", "0", ")">>, <<"?a">>)
\* an empty left pattern
BadLhs == RewriteStr("bad-lhs", <<>>, <<"?a">>)
\* an unclosed right pattern: (+ ?a
BadRhs == RewriteStr("bad-rhs", <<"(", "+", "?a", "0", ")">>, <<"(", "+", "?a">>)

\* (+ ?a ?b) => (+ (neg ?a) ?b): every round adds a class, no run converges
GrowNeg == RewriteStr("grow-neg", <<"(", "+", "?a", "?b", ")">>,
                      <<"(", "+", "(", "neg", "?a", ")", "?b", ")">>)

RuleStrs == {CommAdd, AddZero, GrowNeg, BadLhs, BadRhs}

\* The rule lists of a load-rewrites request: no rule twice in one list.
RuleLists ==
    {rws \in SeqsUpTo(RuleStrs, MaxRules) :
        \A i, j \in 1..Len(rws) : i # j => rws[i] # rws[j]}

ExprOnePlusTwo == <<"(", "+", "1", "2", ")">>                        \* (+ 1 2)
ExprXPlusZero  == <<"(", "+", "x", "0", ")">>                        \* (+ x 0)
ExprOneOverZero == <<"(", "/", "1", "0", ")">>                       \* (/ 1 0)
ExprArity      == <<"(", "sqrt", "1", "2", ")">>                     \* (sqrt 1 2)

ExprTexts == {ExprOnePlusTwo, ExprXPlusZero, ExprOneOverZero, ExprArity}

Raw(kind, rws, exprs, fold) ==
    [request |-> kind, rewrites |-> rws, exprs |-> exprs, constant_fold |-> fold]

(***************************************************************************)
(* main: the loop takes the next item from the deserializer, then handles  *)
(* it and writes the response.  The response and the engine are locals of  *)
(* one iteration.  A panic ends the process before anything is written.    *)
(***************************************************************************)
NoArg == [egraph |-> EGraphNew(AnalysisOf(TRUE)), enode |-> Variable("")]

NoRead   == [ok |-> TRUE, req |-> Request("none", <<>>, <<>>, TRUE)]
NoRunner == RunnerNew(AnalysisOf(TRUE))
NoPrev   == [repeats |-> FALSE, response |-> Response("none")]
NoOp     == [op |-> "none", id |-> 0, id2 |-> 0, n |-> 0,
             merged |-> [to |-> None, changed |-> FALSE]]

\* No graph is being worked on outside a request.
GraphIdle ==
    /\ graph = EGraphNew(AnalysisOf(TRUE))
    /\ was = EGraphNew(AnalysisOf(TRUE))
    /\ last = NoOp

SessionInit ==
    /\ rewrites = <<>>
    /\ pc = "read"
    /\ read = NoRead
    /\ response = Response("none")
    /\ runner = NoRunner
    /\ running = TRUE
    /\ before = <<>>
    /\ prev = NoPrev
    /\ loaded = FALSE
    /\ unanswered = 0

Init ==
    /\ SessionInit
    /\ GraphIdle
    /\ arg = NoArg
    /\ ret = None
    /\ done = FALSE

\* for read in deserializer.into_iter()
ReadRecord(raw) ==
    /\ running
    /\ pc = "read"
    /\ pc' = "handle"
    /\ read' = Deserialize(raw)
    /\ before' = rewrites
    /\ prev' = IF read' = read THEN [repeats |-> TRUE, response |-> response] ELSE NoPrev
    /\ response' = Response("none")
    /\ runner' = IF read' = read THEN runner ELSE NoRunner
    /\ unanswered' = unanswered + 1
    /\ UNCHANGED <<rewrites, running, loaded, arg, ret, done, callbacks>>

ReadMalformed == ReadRecord(Raw("bogus", <<>>, <<>>, <<>>))

ReadVersion == ReadRecord(Raw("version", <<>>, <<>>, <<>>))

ReadLoadRewrites ==
    \E rws \in RuleLists :
        ReadRecord(Raw("load-rewrites", rws, <<>>, <<>>))

ReadSimplifyExpressions ==
    \E exprs \in SeqsUpTo(ExprTexts, MaxExprs), fold \in {<<>>, <<FALSE>>} :
        ReadRecord(Raw("simplify-expressions", <<>>, exprs, fold))

\* let response = match read { ... }; serde_json::to_writer_pretty(...)
Answer ==
    /\ running
    /\ pc = "handle"
    /\ \E out \in {MainLoopBody(rewrites, runner, read)} :
         /\ rewrites' = out.rewrites
         /\ runner' = out.runner
         /\ running' = ~out.panicked
         /\ response' = IF out.panicked THEN response ELSE out.response
         /\ unanswered' = IF out.panicked THEN unanswered ELSE unanswered - 1
         /\ loaded' = (loaded \/ out.response.response = "load-rewrites")
    /\ pc' = "read"
    /\ UNCHANGED <<read, before, prev, arg, ret, done, callbacks>>

Next ==
    \/ ReadMalformed
    \/ ReadVersion
    \/ ReadLoadRewrites
    \/ ReadSimplifyExpressions
    \/ Answer

Spec == Init /\ [][Next]_vars

\* The body of main's loop runs to its end: the step from "handle" back to
\* "read", which only Answer takes.
BodyEnds == running /\ pc = "handle" /\ pc' = "read"

\* main is sequential code: an item taken from the deserializer is handled
\* and answered before the next one is read.
SpecLive == Init /\ [][Next]_vars /\ WF_pc(BodyEnds)

(***************************************************************************)
(* The analysis called on its own: make on a node whose operand classes    *)
(* carry data drawn from a bounded set of exact values.                    *)
(***************************************************************************)
RatVals == {RatioNew(n, d) : n \in -MaxNum..MaxNum, d \in 1..MaxDen} \cup {<<4, 9>>}

DataVals == {None} \cup {Some(q) : q \in RatVals}

\* Two classes, ids 1 and 2, with the given data.
EGraphOf(constant_fold, da, db) ==
    [EGraphNew(AnalysisOf(constant_fold)) EXCEPT
        !.unionfind = <<1, 2>>,
        !.classes   = <<[nodes |-> <<Variable("a")>>, data |-> da],
                        [nodes |-> <<Variable("b")>>, data |-> db]>>,
        !.memo      = {<<Variable("a"), 1>>, <<Variable("b"), 2>>}]

BinaryOps == {"Add", "Sub", "Mul", "Div", "Pow", "Less"}
UnaryOps  == {"Neg", "Sqrt", "Fabs", "Floor", "Ceil", "Round", "Sin"}

InitMake ==
    /\ SessionInit
    /\ GraphIdle
    /\ \E f \in BOOLEAN, da \in DataVals, db \in DataVals :
         \/ \E op \in BinaryOps :
              arg = [egraph |-> EGraphOf(f, da, db), enode |-> Node(op, <<1, 2>>)]
         \/ \E op \in UnaryOps :
              /\ db = None
              /\ arg = [egraph |-> EGraphOf(f, da, db), enode |-> Node(op, <<1>>)]
         \/ /\ db = None /\ is_some(da)
            /\ arg = [egraph |-> EGraphOf(f, None, None), enode |-> Constant(da.v)]
    /\ ret = None
    /\ done = FALSE

MakeCall ==
    /\ ~done
    /\ ret' = make(arg.egraph, arg.enode)
    /\ done' = TRUE
    /\ UNCHANGED <<session, arg, callbacks>>

NextMake == MakeCall

SpecMake == InitMake /\ [][NextMake]_vars

(***************************************************************************)
(* The analysis called back on a graph: nodes are created (make, modify),  *)
(* classes are united (merge, modify), modify runs on a class, and the     *)
(* graph is rebuilt.  The graph starts as two classes whose data are drawn *)
(* from a bounded set of exact values; with folding off no datum is known. *)
(***************************************************************************)
MaxOps == 2

GraphVals == {None, Some(Zero), Some(One), Some(<<2, 1>>)}

GraphConsts == {Zero, One, <<3, 1>>}

GraphNodes(egraph) ==
    {Node(op, <<i, j>>) : op \in {"Add", "Div"}, i \in Ids(egraph), j \in Ids(egraph)}
        \cup {Node("Neg", <<i>>) : i \in Ids(egraph)}
        \cup {Constant(q) : q \in GraphConsts}

InitGraph ==
    /\ SessionInit
    /\ arg = NoArg
    /\ ret = None
    /\ done = FALSE
    /\ \E f \in BOOLEAN, p \in BOOLEAN, da \in GraphVals, db \in GraphVals :
         /\ ~f => (da = None /\ db = None)
         /\ graph = [EGraphOf(f, da, db) EXCEPT !.analysis.prune = p]
    /\ was = graph
    /\ last = NoOp

\* The graph can be worked on: no callback has panicked.
GraphOpen == ~graph.fault /\ last.n < MaxOps

Did(op, id, id2, merged) ==
    [op |-> op, id |-> id, id2 |-> id2, n |-> last.n + 1, merged |-> merged]

GraphAddDone(added) ==
    /\ graph' = added.egraph
    /\ was' = graph
    /\ last' = Did("add", added.id, 0, NoOp.merged)

\* EGraph::add
GraphAdd ==
    /\ GraphOpen
    /\ \E enode \in GraphNodes(graph) : GraphAddDone(EGraphAdd(graph, enode))
    /\ UNCHANGED <<session, arg, ret, done>>

GraphUnionDone(id1, id2, united, merged) ==
    /\ graph' = united.egraph
    /\ was' = graph
    /\ last' = Did("union", id1, id2, merged)

\* EGraph::union
GraphUnion ==
    /\ GraphOpen
    /\ \E id1 \in Ids(graph), id2 \in Ids(graph) :
         GraphUnionDone(id1, id2, Union(graph, id1, id2),
                        merge(ClassOf(graph, id1).data, ClassOf(graph, id2).data))
    /\ UNCHANGED <<session, arg, ret, done>>

\* ConstantFold::modify
GraphModify ==
    /\ GraphOpen
    /\ \E id \in Ids(graph) :
         /\ graph' = modify(graph, id)
         /\ last' = Did("modify", id, 0, NoOp.merged)
    /\ was' = graph
    /\ UNCHANGED <<session, arg, ret, done>>

\* EGraph::rebuild
GraphRebuild ==
    /\ GraphOpen
    /\ graph' = Rebuild(graph)
    /\ was' = graph
    /\ last' = Did("rebuild", 0, 0, NoOp.merged)
    /\ UNCHANGED <<session, arg, ret, done>>

NextGraph == GraphAdd \/ GraphUnion \/ GraphModify \/ GraphRebuild

SpecGraph == InitGraph /\ [][NextGraph]_vars

(***************************************************************************)
(* Properties.                                                             *)
(***************************************************************************)
\* The last item was a request of this kind and its response has been written.
Handled(kind) ==
    pc = "read" /\ running /\ read.ok /\ read.req.request = kind

\* Some rule of the list has a left or right pattern that does not parse.
HasBadPattern(rws) ==
    \E i \in 1..Len(rws) : ~PatternFromStr(rws[i].lhs).ok \/ ~PatternFromStr(rws[i].rhs).ok

\* C1: a load-rewrites request with a pattern that does not parse, at any
\* position, is answered with an error and leaves the installed rules as
\* they were; none of the request's rules is installed.
C1_BadLoadKeepsRules ==
    (Handled("load-rewrites") /\ HasBadPattern(read.req.rewrites))
        => (response.response = "error" /\ rewrites = before)

\* C1 witness: rules were installed, and the request's first rule parses
\* while a later one does not.
C1_Witness ==
    /\ Handled("load-rewrites")
    /\ before # <<>>
    /\ Len(read.req.rewrites) = 2
    /\ ~HasBadPattern(<<read.req.rewrites[1]>>)
    /\ HasBadPattern(<<read.req.rewrites[2]>>)
    /\ read.req.rewrites[1].name # before[1].name
    /\ response.response = "error"

\* C2: a simplify-expressions request handled before any load-rewrites has
\* succeeded returns the "no rules loaded" error, whatever its expressions
\* and fold flag, and no engine is seeded or run.
C2_SimplifyBeforeLoad ==
    (Handled("simplify-expressions") /\ ~loaded)
        => /\ response = ResponseError(NoRulesError)
           /\ runner.roots = <<>>
           /\ runner.iterations = <<>>

\* C2 witness: well-formed expressions with folding off, never a successful load.
C2_Witness ==
    /\ Handled("simplify-expressions")
    /\ ~loaded
    /\ read.req.exprs = <<ExprOnePlusTwo, ExprXPlusZero>>
    /\ ~read.req.constant_fold
    /\ response.error = NoRulesError

\* C3: a load-rewrites request whose patterns all parse installs exactly its
\* rules, in order, and reports their number.
C3_LoadReplaces ==
    (Handled("load-rewrites") /\ ~HasBadPattern(read.req.rewrites))
        => /\ response = ResponseLoadRewrites(Len(read.req.rewrites))
           /\ Len(rewrites) = Len(read.req.rewrites)
           /\ \A i \in 1..Len(rewrites) :
                /\ rewrites[i].name = read.req.rewrites[i].name
                /\ rewrites[i].lhs = PatternFromStr(read.req.rewrites[i].lhs).expr
                /\ rewrites[i].rhs = PatternFromStr(read.req.rewrites[i].rhs).expr

\* C3 witness: two different rules replace a different installed set.
C3_Witness ==
    /\ Handled("load-rewrites")
    /\ before # <<>>
    /\ Len(rewrites) = 2
    /\ rewrites[1].name # rewrites[2].name
    /\ before[1].name # rewrites[1].name
    /\ response.n = 2

\* An expression of exact-value leaves under + - * / in which no divisor is zero,
\* and its arithmetic value.
RECURSIVE ValueAt(_, _)
ValueAt(expr, i) ==
    LET n == expr[i]
        a == ValueAt(expr, n.children[1])
        b == ValueAt(expr, n.children[2])
    IN  CASE n.op = "Constant" -> n.c
          [] n.op = "Add" -> RatAdd(a, b)
          [] n.op = "Sub" -> RatSub(a, b)
          [] n.op = "Mul" -> RatMul(a, b)
          [] n.op = "Div" -> RatDiv(a, b)

RECURSIVE IsArith(_, _)
IsArith(expr, i) ==
    LET n == expr[i]
    IN  \/ n.op = "Constant"
        \/ /\ n.op \in {"Add", "Sub", "Mul", "Div"}
           /\ IsArith(expr, n.children[1])
           /\ IsArith(expr, n.children[2])
           /\ n.op = "Div" => ~is_zero(ValueAt(expr, n.children[2]))

\* C4: with folding on, the term extracted before the run for an expression
\* of exact values under + - * / (no zero divisor) is the single exact-value
\* leaf carrying the expression's value.
C4_ArithmeticFoldsBeforeRun ==
    (Handled("simplify-expressions") /\ response.response = "simplify-expressions"
        /\ read.req.constant_fold)
        => \A i \in 1..Len(read.req.exprs) :
             LET e == ExprParse(read.req.exprs[i]).expr
             IN  IsArith(e, Len(e))
                   => /\ response.best[i].initial_expr = <<Constant(ValueAt(e, Len(e)))>>
                      /\ response.best[i].initial_cost = 1

\* C5: with only comm-add installed and folding on, simplifying (+ 1 2) gives
\* one comparison: initial cost 3, final term the leaf 3, final cost 1.
C5_OnePlusTwo ==
    (Handled("simplify-expressions")
        /\ before = ParseRewrites(<<CommAdd>>, 1, <<>>).rewrites
        /\ read.req.exprs = <<ExprOnePlusTwo>>
        /\ read.req.constant_fold)
        => /\ response.response = "simplify-expressions"
           /\ Len(response.best) = 1
           /\ response.best[1].initial_cost = 3
           /\ response.best[1].final_expr = <<Constant(<<3, 1>>)>>
           /\ response.best[1].final_cost = 1

\* The initial and final cost of every comparison of a response.
Costs(resp) ==
    [i \in 1..Len(resp.best) |-> <<resp.best[i].initial_cost, resp.best[i].final_cost>>]

\* C6: a simplify-expressions request that repeats the previous one (same
\* expressions, same fold flag, same installed rules) returns the same
\* initial and final costs as the previous one did.
C6_RepeatedSimplifySameCosts ==
    (Handled("simplify-expressions") /\ prev.repeats
        /\ prev.response.response = "simplify-expressions")
        => /\ response.response = "simplify-expressions"
           /\ rewrites = before
           /\ Costs(response) = Costs(prev.response)

\* C6 witness: the repeated request has two comparisons and a rule lowered a cost.
C6_Witness ==
    /\ Handled("simplify-expressions")
    /\ prev.repeats
    /\ prev.response.response = "simplify-expressions"
    /\ Len(response.best) = 2
    /\ \E i \in 1..2 : response.best[i].final_cost < response.best[i].initial_cost

\* C7: every item read is answered with one response before the next is
\* read, a malformed item with an error response, and nothing ends the loop.
C7_OneResponsePerRecord ==
    /\ running
    /\ pc = "read" => unanswered = 0
    /\ pc = "handle" => unanswered = 1
    /\ (pc = "read" /\ read # NoRead) => response.response # "none"
    /\ (pc = "read" /\ ~read.ok) => response = ResponseError("Deserialization error")

\* C7 witness: a malformed item was answered with an error and the next
\* item, malformed again, has been read.
C7_Witness ==
    /\ pc = "handle"
    /\ ~read.ok
    /\ prev.repeats
    /\ prev.response = ResponseError("Deserialization error")
    /\ rewrites # <<>>

\* The datum of the i-th operand of the node under test.
Operand(i) == arg.egraph.classes[arg.enode.children[i]].data

\* C8: make on a Div node whose left operand is known to be zero is unknown,
\* whatever the right operand.
C8_DivZeroDividendUnknown ==
    (done /\ arg.enode.op = "Div" /\ Operand(1) = Some(Zero)) => ret = None

\* C8 witness: 0 divided by a known non-zero value, folding on.
C8_Witness ==
    /\ done
    /\ arg.enode.op = "Div"
    /\ arg.egraph.analysis.constant_fold
    /\ Operand(1) = Some(Zero)
    /\ Operand(2) = Some(<<2, 1>>)
    /\ ret = None

IsSquare(n) == \E s \in 0..n : s * s = n

\* C9: make on a Sqrt node with a known operand v is a value r exactly when v
\* is positive with a square numerator and a square denominator, and then
\* r >= 0 and r * r = v; sqrt(4/9) = 2/3 and sqrt(2) is unknown.
C9_SqrtPerfectSquares ==
    (done /\ arg.enode.op = "Sqrt" /\ arg.egraph.analysis.constant_fold
        /\ is_some(Operand(1)))
        => LET v == Operand(1).v
           IN  /\ is_some(ret) <=> (numer(v) > 0 /\ IsSquare(numer(v)) /\ IsSquare(denom(v)))
               /\ ~is_some(ret) => ret = None
               /\ is_some(ret) => (numer(ret.v) >= 0 /\ RatMul(ret.v, ret.v) = v)
               /\ v = <<4, 9>> => ret = Some(<<2, 3>>)
               /\ v = <<2, 1>> => ret = None

\* C9 witness: the square root of 4/9.
C9_Witness ==
    /\ done
    /\ arg.enode.op = "Sqrt"
    /\ Operand(1) = Some(<<4, 9>>)
    /\ ret = Some(<<2, 3>>)

\* C10: make on a Pow node with known base a and exponent b is a value exactly
\* when b is a non-negative integer e, and the value is numer(a)^e / denom(a)^e.
C10_PowIntegerExponent ==
    (done /\ arg.enode.op = "Pow" /\ arg.egraph.analysis.constant_fold
        /\ is_some(Operand(1)) /\ is_some(Operand(2)))
        => LET a == Operand(1).v
               b == Operand(2).v
           IN  /\ is_some(ret) <=> (denom(b) = 1 /\ numer(b) >= 0)
               /\ ~is_some(ret) => ret = None
               /\ is_some(ret) =>
                    /\ numer(ret.v) * IntPow(denom(a), numer(b))
                         = denom(ret.v) * IntPow(numer(a), numer(b))
                    /\ denom(ret.v) > 0
                    /\ Gcd(numer(ret.v), denom(ret.v)) = 1

\* C10 witness: (2/3)^2 = 4/9.
C10_Witness ==
    /\ done
    /\ arg.enode.op = "Pow"
    /\ Operand(1) = Some(<<2, 3>>)
    /\ Operand(2) = Some(<<2, 1>>)
    /\ ret = Some(<<4, 9>>)

\* The engine of a request once its expressions are seeded, before the run.
SeededRunner(req) == SeedExprs(FreshRunner(req.constant_fold), req.exprs, 1).runner

\* The class of a graph that holds the expression of a text, 0 when the graph
\* does not hold it.
ClassOfExpr(egraph, text) ==
    LET r == add_expr(egraph, ExprParse(text).expr)
    IN  IF r.egraph = egraph THEN Find(egraph, r.id) ELSE 0

\* C11: a simplify-expressions response has one comparison per expression, in
\* order; the i-th holds the cheapest term of the class of the i-th expression
\* before the run and after it.
C11_ComparisonPerExpression ==
    (Handled("simplify-expressions") /\ response.response = "simplify-expressions")
        => LET exprs  == read.req.exprs
               seeded == SeededRunner(read.req).egraph
           IN  /\ Len(response.best) = Len(exprs)
               /\ \A i \in 1..Len(exprs) :
                    /\ ClassOfExpr(seeded, exprs[i]) # 0
                    /\ ClassOfExpr(runner.egraph, exprs[i]) # 0
                    /\ response.best[i] =
                         Comparison(
                           find_best(ExtractorNew(seeded), ClassOfExpr(seeded, exprs[i])),
                           find_best(ExtractorNew(runner.egraph),
                                     ClassOfExpr(runner.egraph, exprs[i])))

\* C11 witness: the same expression twice, with add-zero installed: two
\* comparisons, each from (+ x 0) of cost 3 to x of cost 1.
C11_Witness ==
    /\ Handled("simplify-expressions")
    /\ read.req.exprs = <<ExprXPlusZero, ExprXPlusZero>>
    /\ Len(response.best) = 2
    /\ response.best[1] = response.best[2]
    /\ response.best[1].initial_cost = 3
    /\ response.best[1].final_expr = <<Variable("x")>>
    /\ response.best[1].final_cost = 1

\* Some expression of the list does not parse.
HasBadExpr(exprs) == \E i \in 1..Len(exprs) : ~ExprParse(exprs[i]).ok

\* C12: a simplify-expressions request with an expression that does not
\* parse, at any position, is answered with one error response without
\* iterations or comparisons and no saturation is run; simplify-expressions
\* and version requests leave the installed rules as they were.
C12_BadExprAbortsRequest ==
    /\ (Handled("simplify-expressions") /\ HasBadExpr(read.req.exprs))
          => /\ response.response = "error"
             /\ response.iterations = <<>>
             /\ response.best = <<>>
             /\ runner.iterations = <<>>
             /\ runner.stop_reason = "None"
    /\ (Handled("simplify-expressions") \/ Handled("version")) => rewrites = before

\* C12 witness: rules are installed, the first expression parses and the
\* second does not.
C12_Witness ==
    /\ Handled("simplify-expressions")
    /\ before # <<>>
    /\ rewrites = before
    /\ read.req.exprs = <<ExprOnePlusTwo, ExprArity>>
    /\ response.response = "error"
    /\ response.error # NoRulesError
    /\ response.best = <<>>

\* A simplify-expressions request has been read, rules are installed and
\* every expression parses.
SimplifyPending ==
    /\ running /\ pc = "handle" /\ read.ok
    /\ read.req.request = "simplify-expressions"
    /\ rewrites # <<>>
    /\ ~HasBadExpr(read.req.exprs)

DataOf(egraph, i) == ClassOf(egraph, i).data

\* merge as the code has it, written out: adopt the incoming value and report
\* a change exactly when the existing datum is unknown and the incoming known.
MergeContract(to, from, merged) ==
    IF is_none(to) /\ is_some(from)
    THEN merged.to = from /\ merged.changed
    ELSE merged.to = to /\ ~merged.changed

\* C14: over node creations, unions, modify callbacks and rebuilds, a class
\* datum that is present stays present, and the class an id stays the root of
\* keeps its value; merge adopts the incoming value and reports a change
\* exactly when the existing datum is unknown and the incoming one is known,
\* and otherwise leaves the existing datum and reports no change.
C14_KnownDatumKept ==
    /\ \A i \in Ids(was) :
         is_some(DataOf(was, i)) =>
            /\ is_some(DataOf(graph, i))
            /\ Find(graph, i) = Find(was, i) => DataOf(graph, i) = DataOf(was, i)
    /\ (last.op = "union" /\ Find(was, last.id) # Find(was, last.id2)) =>
            /\ MergeContract(DataOf(was, last.id), DataOf(was, last.id2), last.merged)
            /\ DataOf(graph, last.id) = last.merged.to

\* A class with a known datum has absorbed a class with another known datum
\* and kept its own, after a class with an unknown datum adopted a known one.
C14_Witness ==
    /\ last.op = "union"
    /\ last.n = 2
    /\ Find(was, last.id) # Find(was, last.id2)
    /\ is_some(DataOf(was, last.id))
    /\ is_some(DataOf(was, last.id2))
    /\ DataOf(was, last.id) # DataOf(was, last.id2)
    /\ DataOf(graph, last.id2) = DataOf(was, last.id)
    /\ ~last.merged.changed

\* The last operation ran modify on the class of last.id.
ModifyRan ==
    \/ last.op = "modify"
    \/ last.op = "union" /\ Find(was, last.id) # Find(was, last.id2)
    \/ last.op = "add" /\ last.id > Len(was.unionfind)

AllLeaves(nodes) == \A k \in 1..Len(nodes) : is_leaf(nodes[k])

\* C15: after modify has run on a class whose datum is a known value v, the
\* class holds the leaf Constant(v) and, with pruning on, only leaves; on a
\* class whose datum is unknown modify leaves the graph as it was.
C15_ModifyInjectsAndPrunes ==
    /\ (ModifyRan /\ is_some(DataOf(graph, last.id))) =>
          /\ Constant(DataOf(graph, last.id).v) \in NodeSet(graph, Find(graph, last.id))
          /\ graph.analysis.prune => AllLeaves(ClassOf(graph, last.id).nodes)
    /\ (last.op = "modify" /\ is_none(DataOf(was, last.id))) => graph = was

\* A class that held an operator node adopted a known datum in a union; with
\* pruning on, the modify that followed left it the constant and leaves only.
C15_Witness ==
    /\ last.op = "union"
    /\ Find(was, last.id) # Find(was, last.id2)
    /\ graph.analysis.prune
    /\ ~AllLeaves(ClassOf(was, last.id).nodes)
    /\ is_some(DataOf(graph, last.id))
    /\ AllLeaves(ClassOf(graph, last.id).nodes)
    /\ Constant(DataOf(graph, last.id).v) \in NodeSet(graph, Find(graph, last.id))

\* C16: with folding turned off, make returns unknown for a node of every
\* kind, whatever the data of its operand classes.
C16_FoldOffAllUnknown ==
    (done /\ ~arg.egraph.analysis.constant_fold) => ret = None

\* Folding is off and make was called on an Add node whose operands are both
\* known: the value is unknown all the same.
C16_Witness ==
    /\ done
    /\ ~arg.egraph.analysis.constant_fold
    /\ arg.enode.op = "Add"
    /\ is_some(Operand(1))
    /\ is_some(Operand(2))
    /\ ret = None

\* With folding off, on a graph: every datum stays unknown, and a modify call
\* leaves the graph as it was (nothing injected, nothing pruned).
FoldOffGraphStaysUnknown ==
    ~graph.analysis.constant_fold =>
        /\ \A i \in Ids(graph) : is_none(DataOf(graph, i))
        /\ last.op = "modify" => graph = was

\* C17: with folding on, make on the exact-value leaf Constant(c) returns the
\* known value c.
C17_ConstantLeafKnown ==
    (done /\ arg.egraph.analysis.constant_fold /\ arg.enode.op = "Constant")
        => ret = Some(arg.enode.c)

\* C18: make is total: for every node kind and every combination of known
\* and unknown operand data it returns unknown or a rational whose
\* denominator is not zero, and does not panic; a Div node with a known
\* non-zero dividend and a known zero divisor gives unknown.
C18_MakeTotal ==
    done => /\ ret # Fault
            /\ is_some(ret) => denom(ret.v) # 0
            /\ (arg.enode.op = "Div" /\ arg.egraph.analysis.constant_fold
                  /\ is_some(Operand(1)) /\ Operand(1).v # Zero
                  /\ Operand(2) = Some(Zero)) => ret = None

\* C19: a simplify-expressions request is answered with the "no rules
\* loaded" error exactly when no rule is installed when it is handled; a
\* load-rewrites request with an empty list answers 0 and leaves no rule
\* installed, whatever was installed before.
C19_NoRulesErrorIffEmpty ==
    /\ Handled("simplify-expressions") =>
          (response = ResponseError(NoRulesError) <=> before = <<>>)
    /\ (Handled("load-rewrites") /\ read.req.rewrites = <<>>) =>
          /\ response = ResponseLoadRewrites(0)
          /\ rewrites = <<>>

\* A load has succeeded, yet no rule is installed (the last successful load
\* was of an empty list), and the simplify request gets the error.
C19_Witness ==
    /\ Handled("simplify-expressions")
    /\ loaded
    /\ before = <<>>
    /\ read.req.exprs # <<>>
    /\ ~HasBadExpr(read.req.exprs)
    /\ response = ResponseError(NoRulesError)

\* Rules were installed, and a load of an empty list has discarded them.
C19_EmptyLoadDiscards ==
    /\ Handled("load-rewrites")
    /\ read.req.rewrites = <<>>
    /\ before # <<>>
    /\ rewrites = <<>>
    /\ response = ResponseLoadRewrites(0)

\* C20: in every comparison of a simplify-expressions response the final
\* cost is at most the initial cost.
C20_FinalCostNotLarger ==
    (Handled("simplify-expressions") /\ response.response = "simplify-expressions")
        => \A i \in 1..Len(response.best) :
              response.best[i].final_cost <= response.best[i].initial_cost

\* One expression got cheaper (add-zero on (+ x 0)) and one kept its cost.
C20_Witness ==
    /\ Handled("simplify-expressions")
    /\ response.response = "simplify-expressions"
    /\ read.req.exprs = <<ExprXPlusZero, ExprOnePlusTwo>>
    /\ response.best[1].final_cost < response.best[1].initial_cost
    /\ response.best[2].final_cost = response.best[2].initial_cost

\* The same when the run was cut short by a limit: the rule that grows the
\* graph without end ran until the iteration limit.
C20_CutShort ==
    /\ Handled("simplify-expressions")
    /\ response.response = "simplify-expressions"
    /\ runner.stop_reason = "IterationLimit"
    /\ Len(response.best) > 0

\* On a graph, no callback makes the cheapest term of a class larger.
CostOf(egraph, i) == find_best(ExtractorNew(egraph), Find(egraph, i)).cost

CostNeverGrows ==
    ~graph.fault => \A i \in Ids(was) : CostOf(graph, i) <= CostOf(was, i)

====
